---- MODULE Spec2Model ----
(***************************************************************************)
(* Model of the Telegram group search aggregation of the two variants of   *)
(* the repository: src/app.py (WhatsApp front end, "app") and src/bot.py   *)
(* (Telegram front end, "bot").                                            *)
(*                                                                         *)
(* Text is modelled at two grains.  A link is a sequence of one-character  *)
(* strings, so that lower(), strip('/') and split() are computed on it.    *)
(* A title, a description and a query are sequences of words (the result   *)
(* of str.split()), each word a string.                                    *)
(***************************************************************************)
EXTENDS Integers, Sequences, FiniteSets, TLC

(***************************************************************************)
(* Program constants.                                                      *)
(***************************************************************************)
AggregateDeadline == 15
SessionTotalApp == 12
SessionTotalBot == 15
MinResultsApp == 5
MinResultsBot == 3
BroadEnough == 10
BroadSources == 2
\* the broadened terms of _broader_search
BroadTerms == 4
NumSources == 3
MinQueryLen == 2
MaxQueryLen == 50
DefaultMaxApp == 20
DefaultMaxBot == 40
WhatsAppLimit == 4000
ChunkSize == 10
DeliveryMax == 40

(***************************************************************************)
(* Bounds of the model.                                                    *)
(***************************************************************************)
\* seconds a fetch that answers (any status) or fails at once takes
QuickFetch == 1
\* largest delay between arming the wait_for timer and issuing the fetches
MaxTimerLead == 4
\* number of records of the largest page a source answers with
BigPageLen == 21
\* search_groups is called directly with max_results in -1 .. MaxResultsArg
MaxResultsArg == 3
\* number of records of the page the second source answers a broadened term with
BroadPageLen == 5
\* number of searches that run concurrently on one searcher
MaxCalls == 2
\* calls of close / close_session before the shutdown
MaxCloses == 1

Variants == {"app", "bot"}
Sources == 1 .. NumSources

Max(a, b) == IF a >= b THEN a ELSE b
Min(a, b) == IF a <= b THEN a ELSE b

(***************************************************************************)
(* Characters and links.                                                   *)
(***************************************************************************)
\* the element of a set of one element: Only({F(x) : x \in {e}}) is F(e) with
\* e evaluated once
Only(S) == CHOOSE x \in S : TRUE

LowerChar(c) ==
  CASE c = "F" -> "f"
    [] c = "B" -> "b"
    [] c = "T" -> "t"
    [] OTHER -> c

\* str.lower() on a link
LowerStr(s) == Only({[i \in 1 .. Len(t) |-> LowerChar(t[i])] : t \in {s}})

\* str.strip('/'): every leading and trailing '/' is removed
StripSlashes(s) ==
  Only({IF keep = {} THEN <<>>
        ELSE LET lo == CHOOSE i \in keep : \A j \in keep : i <= j
                 hi == CHOOSE i \in keep : \A j \in keep : i >= j
             IN SubSeq(t, lo, hi) :
        t \in {s}, keep \in {{i \in 1 .. Len(s) : s[i] # "/"}}})

\* the positions at which sub occurs in s
Occurrences(sub, s) ==
  Only({{i \in 1 .. (Len(t) - Len(u) + 1) : SubSeq(t, i, i + Len(u) - 1) = u} :
        u \in {sub}, t \in {s}})

\* sub in s
Contains(sub, s) == Occurrences(sub, s) # {}

\* s.split(sub)[-1]: what follows the last occurrence of sub (s when none)
AfterLast(sub, s) ==
  Only({IF occ = {} THEN t
        ELSE LET last == CHOOSE i \in occ : \A j \in occ : i >= j
             IN SubSeq(t, last + Len(sub), Len(t)) :
        t \in {s}, occ \in {Occurrences(sub, s)}})

\* s.split(sub)[0]: what precedes the first occurrence of sub (s when none)
BeforeFirst(sub, s) ==
  Only({IF occ = {} THEN t
        ELSE LET first == CHOOSE i \in occ : \A j \in occ : i <= j
             IN SubSeq(t, 1, first - 1) :
        t \in {s}, occ \in {Occurrences(sub, s)}})

HTTPS == <<"h", "t", "t", "p", "s", ":", "/", "/">>
TME == <<"t", ".", "m", "e", "/">>
TMeLink(name) == HTTPS \o TME \o name

(***************************************************************************)
(* Words.                                                                  *)
(***************************************************************************)
LowerWord(w) ==
  CASE w = "Crypto" -> "crypto"
    [] w = "News" -> "news"
    [] w = "Official" -> "official"
    [] w = "Bitcoin" -> "bitcoin"
    [] w = "Community" -> "community"
    [] w = "DeFi" -> "defi"
    [] w = "Updates" -> "updates"
    [] w = "Actualites" -> "actualites"
    [] w = "Discussion" -> "discussion"
    [] w = "Music" -> "music"
    [] w = "Lovers" -> "lovers"
    [] w = "Audio" -> "audio"
    [] w = "Quality" -> "quality"
    [] w = "New" -> "new"
    [] w = "Releases" -> "releases"
    [] w = "Tech" -> "tech"
    [] w = "Global" -> "global"
    [] w = "Programming" -> "programming"
    [] w = "AI" -> "ai"
    [] w = "Machine" -> "machine"
    [] w = "Learning" -> "learning"
    [] w = "Sports" -> "sports"
    [] w = "World" -> "world"
    [] w = "Football" -> "football"
    [] w = "NBA" -> "nba"
    [] w = "Basketball" -> "basketball"
    [] w = "Communaute" -> "communaute"
    [] w = "Musique" -> "musique"
    [] w = "Nouvelles" -> "nouvelles"
    [] w = "Intelligence" -> "intelligence"
    [] w = "Mises" -> "mises"
    [] w = "Zz" -> "zz"
    [] w = "Hub" -> "hub"
    [] w = "Bar" -> "bar"
    [] w = "Telegram" -> "telegram"
    [] w = "Salut" -> "salut"
    [] w = "Help" -> "help"
    [] w = "/HELP" -> "/help"
    [] OTHER -> w

\* str.title() on one lower-case word of the query vocabulary
TitleWord(w) ==
  CASE w = "crypto" -> "Crypto"
    [] w = "news" -> "News"
    [] w = "zz" -> "Zz"
    [] w = "hub" -> "Hub"
    [] w = "a" -> "A"
    [] OTHER -> w

LowerWords(ws) == [i \in 1 .. Len(ws) |-> LowerWord(ws[i])]
TitleWords(ws) == [i \in 1 .. Len(ws) |-> TitleWord(ws[i])]
WordSet(ws) == {ws[i] : i \in 1 .. Len(ws)}

RECURSIVE SumLen(_)
SumLen(ws) == IF ws = <<>> THEN 0 ELSE Len(Head(ws)) + SumLen(Tail(ws))

\* len() of the text whose words are ws, joined by single spaces
TextLen(ws) == IF ws = <<>> THEN 0 ELSE SumLen(ws) + Len(ws) - 1

(***************************************************************************)
(* Pages.  A page is the list of its elements that carry a Telegram link.  *)
(* An item is what one such element holds: the text of its title element   *)
(* and of its description element (NoElem when the element is missing),    *)
(* its link, and the member count written in the element (0 when none).    *)
(***************************************************************************)
Item(t, l, d, m) == [title |-> t, link |-> l, description |-> d, members |-> m]

\* find() returned None
NoElem == <<"<no element>">>

SourceName(v, s) ==
  IF v = "app"
  THEN CASE s = 1 -> "tlgrm.eu" [] s = 2 -> "tgchannels.org" [] s = 3 -> "tgstat.com"
         [] OTHER -> "generic"
  ELSE CASE s = 1 -> "TLGRM.eu" [] s = 2 -> "TelegramChannels.me"
         [] OTHER -> "Telegram-Store"

\* ''.join(chars)
RECURSIVE JoinChars(_)
JoinChars(cs) == IF cs = <<>> THEN "" ELSE Head(cs) \o JoinChars(Tail(cs))

\* s.replace('@', '')
RECURSIVE RemoveAt(_)
RemoveAt(s) ==
  IF s = <<>> THEN <<>>
  ELSE (IF Head(s) = "@" THEN <<>> ELSE <<Head(s)>>) \o RemoveAt(Tail(s))

\* s.startswith(pre)
StartsWith(pre, s) == Len(s) >= Len(pre) /\ SubSeq(s, 1, Len(pre)) = pre

\* url.split('/')[-1]
LastSegment(link) == AfterLast(<<"/">>, link)

\* the text of a path segment as a title: no word when the segment is empty
SegmentText(seg) == IF seg = <<>> THEN <<>> ELSE <<JoinChars(seg)>>

\* text[:n] for the text whose non-empty list of words is ws, n >= 0; a cut
\* that falls behind a space leaves an empty last word
RECURSIVE CutAt(_, _)
CutAt(ws, n) ==
  IF Len(Head(ws)) >= n THEN <<SubSeq(Head(ws), 1, n)>>
  ELSE IF Tail(ws) = <<>> THEN ws
  ELSE <<Head(ws)>> \o CutAt(Tail(ws), n - Len(Head(ws)) - 1)

\* text[:n]
CutText(ws, n) == IF ws = <<>> \/ n <= 0 THEN <<>> ELSE CutAt(ws, n)

\* text + "..."
Ellipsis(ws) ==
  IF ws = <<>> THEN <<"...">>
  ELSE SubSeq(ws, 1, Len(ws) - 1) \o <<ws[Len(ws)] \o "...">>

\* title[:60] and description[:100] of app.py
TitleCut == 60
DescriptionCut == 100

\* the cap of _parse_generic
GenericCap == 15

\* get_text().strip() if elem else fallback
TextIfElem(text, fallback) == IF text = NoElem THEN fallback ELSE text

\* get_text().strip() or fallback (the text of the link element itself)
TextOr(text, fallback) == IF text = NoElem \/ text = <<>> THEN fallback ELSE text

\* app.py: description[:100] of the element, else the default text
AppDescription(text, default) ==
  IF text = NoElem THEN default ELSE CutText(text, DescriptionCut)

\* bot.py: description[:100] + "..." if len(description) > 100 else description
BotDescription(text) ==
  LET description == IF text = NoElem THEN <<>> ELSE text
  IN IF TextLen(description) > DescriptionCut
     THEN Ellipsis(CutText(description, DescriptionCut)) ELSE description

\* the first member count in the text of the whole page, 0 when there is none
FirstCount(page) ==
  LET with == {i \in 1 .. Len(page) : page[i].members > 0}
  IN IF with = {} THEN 0
     ELSE page[CHOOSE i \in with : \A j \in with : i <= j].members

Record(t, l, d, m, src) ==
  [title |-> t, link |-> l, description |-> d, members |-> m, source |-> src]

\* the member count is searched in soup.get_text(), the text of the page
_parse_tlgrm_eu(page) ==
  [i \in 1 .. Len(page) |->
     LET url == IF StartsWith(<<"h", "t", "t", "p">>, page[i].link) THEN page[i].link
                ELSE TMeLink(RemoveAt(LastSegment(page[i].link)))
     IN Record(CutText(TextIfElem(page[i].title, SegmentText(LastSegment(url))), TitleCut),
               url,
               AppDescription(page[i].description, <<"Canal/Groupe", "Telegram">>),
               FirstCount(page),
               "tlgrm.eu")]

_parse_tgchannels_org(page) ==
  [i \in 1 .. Len(page) |->
     Record(CutText(TextOr(page[i].title, SegmentText(LastSegment(page[i].link))), TitleCut),
            page[i].link,
            AppDescription(page[i].description, <<"Canal", "Telegram">>),
            0,
            "tgchannels.org")]

_parse_tgstat_com(page) ==
  [i \in 1 .. Len(page) |->
     Record(CutText(TextIfElem(page[i].title, SegmentText(LastSegment(page[i].link))), TitleCut),
            page[i].link,
            AppDescription(page[i].description, <<"Canal", "Telegram">>),
            page[i].members,
            "tgstat.com")]

\* telegram_links[:15]
_parse_generic(page) ==
  [i \in 1 .. Min(Len(page), GenericCap) |->
     LET url == IF StartsWith(<<"h", "t", "t", "p">>, page[i].link) THEN page[i].link
                ELSE IF StartsWith(<<"t", ".", "m", "e">>, page[i].link)
                THEN HTTPS \o page[i].link
                ELSE TMeLink(LastSegment(page[i].link))
     IN Record(CutText(TextOr(page[i].title, SegmentText(RemoveAt(LastSegment(url)))), TitleCut),
               url,
               AppDescription(page[i].description, <<"Canal/Groupe", "Telegram">>),
               0,
               "generic")]

_parse_tlgrm(page) ==
  [i \in 1 .. Len(page) |->
     LET link == IF StartsWith(<<"h", "t", "t", "p">>, page[i].link) THEN page[i].link
                 ELSE TMeLink(LastSegment(page[i].link))
     IN Record(TextIfElem(page[i].title, SegmentText(LastSegment(link))),
               link,
               BotDescription(page[i].description),
               page[i].members,
               "TLGRM.eu")]

_parse_telegram_channels(page) ==
  [i \in 1 .. Len(page) |->
     Record(TextOr(page[i].title, SegmentText(LastSegment(page[i].link))),
            page[i].link,
            BotDescription(page[i].description),
            page[i].members,
            "TelegramChannels.me")]

\* if not title or len(title) < 2: the last path segment without '@'
_parse_telegram_store(page) ==
  [i \in 1 .. Len(page) |->
     LET link == IF StartsWith(<<"h", "t", "t", "p">>, page[i].link) THEN page[i].link
                 ELSE HTTPS \o page[i].link
         text == TextOr(page[i].title, <<>>)
     IN Record(IF TextLen(text) < 2 THEN SegmentText(RemoveAt(LastSegment(link))) ELSE text,
               link,
               BotDescription(page[i].description),
               0,
               "Telegram-Store")]

\* the record list a source's parser returns for a page of items
ParsePage(v, s, page) ==
  IF v = "app"
  THEN CASE s = 1 -> _parse_tlgrm_eu(page)
         [] s = 2 -> _parse_tgchannels_org(page)
         [] s = 3 -> _parse_tgstat_com(page)
         [] OTHER -> _parse_generic(page)
  ELSE CASE s = 1 -> _parse_tlgrm(page)
         [] s = 2 -> _parse_telegram_channels(page)
         [] OTHER -> _parse_telegram_store(page)

LongWord == "aaaaaaaaaaaaaaaaaaaaaaaaaaaaaaaaaaaaaaaaaaaaaaaaaaa"

Digit == <<"0", "1", "2", "3", "4", "5", "6", "7", "8", "9">>
Numeral(n) == IF n < 10 THEN <<Digit[n + 1]>> ELSE <<Digit[(n \div 10) + 1], Digit[(n % 10) + 1]>>

ItemFoo == Item(<<"Crypto", "News">>, TMeLink(<<"F", "o", "o", "/">>), <<>>, 500)
ItemFooDup == Item(<<"crypto", "Hub">>, TMeLink(<<"f", "o", "o">>), <<"zz">>, 500)
ItemBar == Item(<<"Zz", "Bar">>, TMeLink(<<"b", "a", "r">>), <<"news">>, 20000)
\* a link without text
ItemBaz == Item(<<>>, TMeLink(<<"b", "a", "z">>), <<"crypto">>, 500)
\* an element without title element and without member count
ItemQux == Item(NoElem, TMeLink(<<"q", "u", "x">>), <<>>, 0)
\* an element whose title element is empty
ItemTg == Item(<<>>, TMeLink(<<"T", "e", "l", "e", "g", "r", "a", "m">>), <<>>, 1500)
ItemN(n) == Item(<<"zz", "crypto">>, TMeLink(<<"n">> \o Numeral(n)), <<>>, n)

\* an element with a long title and a long description
ItemLong(n) ==
  Item(<<"zz", "crypto", LongWord, LongWord, LongWord, LongWord>>,
       TMeLink(<<"n">> \o Numeral(n)), <<LongWord, LongWord>>, n)

PageEmpty == <<>>
PageA == <<ItemFoo, ItemBar, ItemQux>>
PageB == <<ItemFooDup, ItemBaz>>
PageC == <<ItemQux, ItemTg, ItemBar>>
PageFive == [n \in 1 .. BroadPageLen |-> ItemN(n)]
PageBig == [n \in 1 .. BigPageLen |-> ItemLong(n)]

\* the pages source s answers a query with
PagesOf(s) ==
  CASE s = 1 -> {PageEmpty, PageA, PageBig}
    [] s = 2 -> {PageEmpty, PageB}
    [] OTHER -> {PageEmpty, PageC}

\* the pages source s answers a broadened term with
BroadPagesOf(s) == IF s = 1 THEN {PageBig} ELSE {PageFive}

(***************************************************************************)
(* Python list operations.                                                 *)
(***************************************************************************)
\* seq[:n + 1]: a slice that keeps one element too many
SliceOneMore(seq, n) ==
  IF n + 1 >= 0 THEN SubSeq(seq, 1, Min(n + 1, Len(seq)))
  ELSE SubSeq(seq, 1, Max(Len(seq) + n + 1, 0))

\* seq[:n]
Slice(seq, n) ==
  IF n >= 0 THEN SubSeq(seq, 1, Min(n, Len(seq)))
  ELSE SubSeq(seq, 1, Max(Len(seq) + n, 0))

Reverse(seq) == Only({[i \in 1 .. Len(s) |-> s[Len(s) + 1 - i]] : s \in {seq}})

\* the place of each element in the stable ascending order: behind the
\* elements of smaller key and the earlier elements of the same key
AscRank(pairs) ==
  Only({[i \in 1 .. Len(p) |->
           Cardinality({j \in 1 .. Len(p) :
                          \/ p[j].key < p[i].key
                          \/ p[j].key = p[i].key /\ j <= i})] : p \in {pairs}})

\* list.sort(key=...): a stable ascending sort
StableAsc(pairs) ==
  Only({[k \in 1 .. Len(p) |-> p[CHOOSE i \in 1 .. Len(p) : r[i] = k]] :
        p \in {pairs}, r \in {AscRank(pairs)}})

\* a descending sort made of an ascending sort and one reversal: records of
\* equal key come out in reverse order
SortThenReverse(pairs) == Reverse(StableAsc(pairs))

\* list.sort(key=..., reverse=True): the list is reversed, sorted by a stable
\* ascending sort, and reversed again
SortReverse(pairs) == Reverse(StableAsc(Reverse(pairs)))

Values(pairs) == Only({[i \in 1 .. Len(p) |-> p[i].val] : p \in {pairs}})

RECURSIVE Concat(_)
Concat(lists) ==
  Only({IF l = <<>> THEN <<>> ELSE Head(l) \o Concat(Tail(l)) : l \in {lists}})

\* the elements of seq that satisfy keep (a boolean sequence), in order
RECURSIVE Filter(_, _)
Filter(seq, keep) ==
  Only({IF s = <<>> THEN <<>>
        ELSE (IF Head(k) THEN <<Head(s)>> ELSE <<>>) \o Filter(Tail(s), Tail(k)) :
        s \in {seq}, k \in {keep}})

(***************************************************************************)
(* Deduplication.                                                          *)
(***************************************************************************)
\* app.py: the key of a record is its link in lower case
AppLinkKey(link) == LowerStr(link)

\* bot.py: lower case, slashes stripped at both ends, and a t.me link reduced
\* to what follows "t.me/", up to a "?"
BotLinkKey(link) ==
  Only({IF Contains(TME, l) THEN BeforeFirst(<<"?">>, AfterLast(TME, l)) ELSE l :
        l \in {StripSlashes(LowerStr(link))}})

LinkKey(v, link) == IF v = "app" THEN AppLinkKey(link) ELSE BotLinkKey(link)

\* the normalized link key the deduplication contract names: lower case,
\* without a trailing slash
NormKey(link) ==
  Only({IF l # <<>> /\ l[Len(l)] = "/" THEN SubSeq(l, 1, Len(l) - 1) ELSE l :
        l \in {LowerStr(link)}})

\* the loop of _deduplicate_groups / _remove_duplicates: the first record of
\* each key is kept; app.py also drops a record whose link is empty
RECURSIVE DedupLoop(_, _, _, _)
DedupLoop(v, groups, seen, unique) ==
  Only({IF gs = <<>> THEN u
        ELSE IF (v = "app" /\ k = <<>>) \/ k \in sn
        THEN DedupLoop(v, Tail(gs), sn, u)
        ELSE DedupLoop(v, Tail(gs), sn \cup {k}, Append(u, Head(gs))) :
        gs \in {groups}, sn \in {seen}, u \in {unique},
        k \in {IF groups = <<>> THEN <<>> ELSE LinkKey(v, Head(groups).link)}})

_deduplicate_groups(groups) == DedupLoop("app", groups, {}, <<>>)
_remove_duplicates(groups) == DedupLoop("bot", groups, {}, <<>>)
Dedup(v, groups) == IF v = "app" THEN _deduplicate_groups(groups) ELSE _remove_duplicates(groups)

(***************************************************************************)
(* app.py: the fallback groups and the ranking.                            *)
(***************************************************************************)
Categories == <<"crypto", "musique", "tech", "sport">>

PopularOf(category) ==
  CASE category = "crypto" ->
         << Item(<<"Crypto", "News", "Official">>,
                 TMeLink(<<"c", "r", "y", "p", "t", "o", "n", "e", "w", "s">>),
                 <<"Actualites", "crypto", "officielles">>, 0),
            Item(<<"Bitcoin", "Community">>, TMeLink(<<"b", "i", "t", "c", "o", "i", "n">>),
                 <<"Communaute", "Bitcoin">>, 0),
            Item(<<"DeFi", "Updates">>, TMeLink(<<"d", "e", "f", "i", "_", "n", "e", "w", "s">>),
                 <<"Actualites", "DeFi">>, 0) >>
    [] category = "musique" ->
         << Item(<<"Music", "Lovers">>,
                 TMeLink(<<"m", "u", "s", "i", "c", "l", "o", "v", "e", "r", "s">>),
                 <<"Communaute", "des", "amoureux", "de", "musique">>, 0),
            Item(<<"Audio", "Quality">>,
                 TMeLink(<<"a", "u", "d", "i", "o", "q", "u", "a", "l", "i", "t", "y">>),
                 <<"Musique", "haute", "qualite">>, 0),
            Item(<<"New", "Music", "Releases">>, TMeLink(<<"n", "e", "w", "m", "u", "s", "i", "c">>),
                 <<"Nouvelles", "sorties", "musicales">>, 0) >>
    [] category = "tech" ->
         << Item(<<"Tech", "News", "Global">>, TMeLink(<<"t", "e", "c", "h", "n", "e", "w", "s">>),
                 <<"Actualites", "technologiques">>, 0),
            Item(<<"Programming", "Hub">>,
                 TMeLink(<<"p", "r", "o", "g", "r", "a", "m", "m", "i", "n", "g">>),
                 <<"Communaute", "des", "developpeurs">>, 0),
            Item(<<"AI", "&", "Machine", "Learning">>,
                 TMeLink(<<"a", "r", "t", "i", "f", "i", "c", "i", "a", "l", "i", "n", "t", "e",
                           "l", "l", "i", "g", "e", "n", "c", "e">>),
                 <<"Intelligence", "artificielle">>, 0) >>
    [] OTHER ->
         << Item(<<"Sports", "World">>,
                 TMeLink(<<"s", "p", "o", "r", "t", "s", "w", "o", "r", "l", "d">>),
                 <<"Actualites", "sportives", "mondiales">>, 0),
            Item(<<"Football", "Updates">>, TMeLink(<<"f", "o", "o", "t", "b", "a", "l", "l">>),
                 <<"Mises", "a", "jour", "football">>, 0),
            Item(<<"NBA", "Basketball">>, TMeLink(<<"n", "b", "a">>),
                 <<"Basketball", "NBA">>, 0) >>

\* category in word, for the words of the query vocabulary
SubstrWord(category, w) ==
  w = category \/ <<category, w>> \in {<<"tech", "fintech">>, <<"sport", "sports">>}

\* category in query_lower
CategoryIn(category, query) == \E i \in 1 .. Len(query) : SubstrWord(category, query[i])

RECURSIVE MatchingLoop(_, _)
MatchingLoop(cats, query) ==
  IF cats = <<>> THEN <<>>
  ELSE (IF CategoryIn(Head(cats), query) THEN PopularOf(Head(cats)) ELSE <<>>)
         \o MatchingLoop(Tail(cats), query)

TelegramLink == TMeLink(<<"t", "e", "l", "e", "g", "r", "a", "m">>)

\* the generic groups built from the query when no category matches
GenericGroups(query) ==
  << Item(TitleWords(query) \o <<"Community">>, TelegramLink, <<"Communaute">> \o query, 0),
     Item(TitleWords(query) \o <<"News">>, TelegramLink, <<"Actualites">> \o query, 0),
     Item(TitleWords(query) \o <<"Discussion">>, TelegramLink, <<"Discussion">> \o query, 0) >>

matching_groups(query) ==
  IF MatchingLoop(Categories, query) = <<>> THEN GenericGroups(query)
  ELSE MatchingLoop(Categories, query)

\* the least and the largest value of random.randint(1000, 50000): without and
\* with the member bonus of the score
PopularMembers == {1000, 50000}

\* _get_popular_groups: rnd[i] is the member count drawn for the i-th group
_get_popular_groups(query, rnd) ==
  [i \in 1 .. Len(matching_groups(query)) |->
     [title |-> matching_groups(query)[i].title,
      link |-> matching_groups(query)[i].link,
      description |-> matching_groups(query)[i].description,
      members |-> rnd[i],
      source |-> "popular"]]

\* the score with the two member tests chained by elif: above 10,000 members
\* only the second bonus is given
RelevanceElifBonus(group, query) ==
  LET query_words == WordSet(LowerWords(query))
      title_words == WordSet(LowerWords(group.title))
      desc_words == WordSet(LowerWords(group.description))
  IN Cardinality(query_words \cap title_words) * 3
     + Cardinality(query_words \cap desc_words) * 1
     + (IF group.members > 10000 THEN 2 ELSE IF group.members > 1000 THEN 1 ELSE 0)
     + (IF group.source \in {"tgstat.com", "tlgrm.eu"} THEN 1 ELSE 0)

calculate_relevance(group, query) ==
  LET query_words == WordSet(LowerWords(query))
      title_words == WordSet(LowerWords(group.title))
      desc_words == WordSet(LowerWords(group.description))
  IN Cardinality(query_words \cap title_words) * 3
     + Cardinality(query_words \cap desc_words) * 1
     + (IF group.members > 1000 THEN 1 ELSE 0)
     + (IF group.members > 10000 THEN 2 ELSE 0)
     + (IF group.source \in {"tgstat.com", "tlgrm.eu"} THEN 1 ELSE 0)

ScoredPairs(groups, query) ==
  [i \in 1 .. Len(groups) |-> [key |-> calculate_relevance(groups[i], query), val |-> groups[i]]]

\* groups.sort(key=calculate_relevance, reverse=True)
AppSort(groups, query) == Values(SortReverse(ScoredPairs(groups, query)))

\* the ranking without its list comprehension: every sorted record is kept
RankWithoutFilter(groups, query) == Values(SortReverse(ScoredPairs(groups, query)))

_filter_and_rank(groups, query) ==
  Only({Filter(sorted, [i \in 1 .. Len(sorted) |-> calculate_relevance(sorted[i], query) > 0]) :
        sorted \in {AppSort(groups, query)}})

(***************************************************************************)
(* bot.py: the ordering and the broadened terms.                           *)
(***************************************************************************)
MemberPairs(groups) == [i \in 1 .. Len(groups) |-> [key |-> groups[i].members, val |-> groups[i]]]

\* unique_groups.sort(key=lambda x: x.get('members', 0), reverse=True)
BotSort(groups) == Values(SortReverse(MemberPairs(groups)))

\* a list of broadened terms with one more term
BroaderTermsFive(query) ==
  << IF Len(query) > 1 THEN <<query[1]>> ELSE query,
     query \o <<"group">>,
     query \o <<"channel">>,
     <<"telegram">> \o query,
     query \o <<"chat">> >>

broader_terms(query) ==
  << IF Len(query) > 1 THEN <<query[1]>> ELSE query,
     query \o <<"group">>,
     query \o <<"channel">>,
     <<"telegram">> \o query >>

(***************************************************************************)
(* One fetch.  The environment decides how a request ends: HTTP 200 with a *)
(* page, another status, the session's total timeout, or a transport       *)
(* error.                                                                  *)
(***************************************************************************)
Failures == {"status", "timeout", "error"}
Outcome(k, p) == [kind |-> k, page |-> p]
NoOutcome == Outcome("none", <<>>)
\* how a request to source s for the query can end
Outcomes(s) == {Outcome("ok", p) : p \in PagesOf(s)} \cup {Outcome(k, <<>>) : k \in Failures}
\* how a request to source s for a broadened term can end
BroadOutcomes(s) == {Outcome("ok", p) : p \in BroadPagesOf(s)} \cup {Outcome("timeout", <<>>)}

SessionTotal(v) == IF v = "app" THEN SessionTotalApp ELSE SessionTotalBot

\* seconds from issuing the request to the end of the fetch
Dur(v, o) == IF o.kind = "timeout" THEN SessionTotal(v) ELSE QuickFetch

\* the body of the try block: the request and, on status 200, the parser
FetchBody(v, s, o) ==
  [raised |-> o.kind \in {"timeout", "error"},
   groups |-> IF o.kind = "ok" THEN ParsePage(v, s, o.page) ELSE <<>>]

\* the fetch without its except clauses
SearchSingleSourceUnguarded(v, s, o) == FetchBody(v, s, o)

\* the except clauses turn whatever the body raises into an empty list
_search_single_source(v, s, o) ==
  IF FetchBody(v, s, o).raised THEN [raised |-> FALSE, groups |-> <<>>]
  ELSE FetchBody(v, s, o)

NoResult == [raised |-> FALSE, groups |-> <<>>]

\* for result in results: if isinstance(result, list): all_groups.extend(result)
Merge(res) == Concat([s \in 1 .. Len(res) |-> IF res[s].raised THEN <<>> ELSE res[s].groups])

\* self.search_sources of the searcher
search_sources(v) ==
  IF v = "app"
  THEN << "https://tlgrm.eu/channels", "https://tgchannels.org/search",
          "https://tgstat.com/search", "https://telegramchannels.me/search" >>
  ELSE << "TLGRM.eu", "TelegramChannels.me", "Telegram-Store" >>

\* a fan-out over every configured source
AllConfigured(v) == search_sources(v)

\* the sources search_groups builds a fetch for: app.py takes
\* self.search_sources[:3], bot.py the whole list
FanOutSources(v) ==
  IF v = "app" THEN Slice(search_sources(v), NumSources) ELSE search_sources(v)

(***************************************************************************)
(* The requests.                                                           *)
(***************************************************************************)
ValidQueries == {<<"Crypto">>, <<"zz", "news">>}
Queries == ValidQueries \cup {<<>>, <<"a">>, <<LongWord>>}
MaxResultsArgs == (-1 .. MaxResultsArg) \cup {BigPageLen}
TimerLeads == {0, MaxTimerLead}
Entries == {"handle_message", "search_direct", "search_command", "handle_text", "search_groups"}

VARIABLES
  pc,                \* "idle", "gather", "broaden", "done"
  variant,           \* "app" or "bot"
  entry,             \* the entry point of the request
  message,           \* the text handle_message received
  query,             \* the query handed to the search
  max_results,
  timerLead,         \* seconds the wait_for timer runs before the fetches are issued
  task,              \* per source: "none", "pending", "done", "cancelled"
  outcome,           \* per source: how its request ended
  results,           \* per source: what _search_single_source gave to gather
  completion,        \* history: the sources in the order their requests ended
  all_groups,        \* the merged list
  unique_groups,     \* the deduplicated list before the fallback
  rank_input,        \* the list handed to the ranking step
  ranked,            \* the list the ranking step gives back
  final_groups,      \* the list search_groups returns
  recordsFetched,    \* records the fetches of this call returned, over all sources
  fallbackRuns,      \* calls of _get_popular_groups / _broader_search
  fetches,           \* requests issued
  elapsed,           \* seconds from the start of the search to its end
  reply,             \* what the caller answers
  bterm,             \* _broader_search: index of the term being searched
  bsource,           \* _broader_search: index of the source being searched
  additional_groups, \* _broader_search: the records collected
  sent,              \* the messages the handler renders from the result
  server,            \* the process: its variant and "new", "up" or "down"
  session,           \* self.session of the searcher: 0 for None, else a session
  sessions,          \* the sessions created so far, each "open" or "closed"
  call,              \* the concurrent searches of the process
  last_searches,     \* WhatsAppBot.last_searches: a dict from phone numbers to entries
  handler            \* bot.py perform_search: one run of the handler, cut at its awaits

\* the state of the process, its searcher and its cache
cvars == <<server, session, sessions, call, last_searches>>

\* the state of one search
svars == <<pc, variant, entry, message, query, max_results, timerLead, task, outcome, results,
          all_groups, unique_groups, rank_input, ranked, final_groups, recordsFetched,
          fallbackRuns, fetches, elapsed, reply, bterm, bsource, additional_groups, sent,
          completion>>

vars == <<svars, cvars, handler>>

Phones == {"p1", "p2"}
Calls == 1 .. MaxCalls
None == "None"
IdleCall == [pc |-> "idle", phone |-> None, query |-> <<>>, started |-> 0, used |-> {},
             failed |-> 0, groups |-> <<>>]

\* perform_search before it runs: the number of records search_groups
\* returned, whether the 'searching' message is deleted, the calls of
\* searching_msg.delete(), the result messages sent, and the last reply
IdleHandler == [pc |-> "idle", entry |-> "none", query |-> <<>>, groups |-> 0,
                deleted |-> FALSE, deletes |-> 0, chunks |-> 0, reply |-> "none"]

Init ==
  /\ handler = IdleHandler
  /\ pc = "idle"
  /\ variant = "none"
  /\ entry = "none"
  /\ message = <<>>
  /\ query = <<>>
  /\ max_results = 0
  /\ timerLead = 0
  /\ task = [s \in Sources |-> "none"]
  /\ outcome = [s \in Sources |-> NoOutcome]
  /\ results = [s \in Sources |-> NoResult]
  /\ completion = <<>>
  /\ all_groups = <<>>
  /\ unique_groups = <<>>
  /\ rank_input = <<>>
  /\ ranked = <<>>
  /\ final_groups = <<>>
  /\ recordsFetched = 0
  /\ fallbackRuns = 0
  /\ fetches = 0
  /\ elapsed = 0
  /\ reply = "none"
  /\ bterm = 0
  /\ bsource = 0
  /\ additional_groups = <<>>
  /\ sent = <<>>
  /\ server = [variant |-> "none", state |-> "new"]
  /\ session = 0
  /\ sessions = <<>>
  /\ call = [c \in Calls |-> IdleCall]
  /\ last_searches = [p \in {} |-> None]

\* the replies of a request that called no search
NoSearchReplies == {"rejected", "welcome", "help", "unrecognized", "specify"}

\* the request is answered with r before search_groups is called
Answer(v, e, m, q, r) ==
  /\ pc' = "done"
  /\ variant' = v
  /\ entry' = e
  /\ message' = m
  /\ query' = q
  /\ reply' = r
  /\ UNCHANGED <<max_results, timerLead, task, outcome, results, all_groups, unique_groups,
                 rank_input, ranked, final_groups, recordsFetched, fallbackRuns, fetches,
                 elapsed, bterm, bsource, additional_groups, sent>>
  /\ UNCHANGED <<cvars, completion, handler>>

\* the request ends before search_groups is called
Reject(v, e, q) == Answer(v, e, <<>>, q, "rejected")

\* search_groups up to its gather: one task per source, all started
StartSearch(v, e, q, mr, lead) ==
  /\ pc' = "gather"
  /\ variant' = v
  /\ entry' = e
  /\ query' = q
  /\ max_results' = mr
  /\ timerLead' = lead
  /\ task' = [s \in Sources |-> IF s <= Len(FanOutSources(v)) THEN "pending" ELSE "none"]
  /\ fetches' = Len(FanOutSources(v))
  /\ UNCHANGED <<outcome, results, all_groups, unique_groups, rank_input, ranked,
                 final_groups, recordsFetched, fallbackRuns, elapsed, reply, bterm, bsource,
                 additional_groups, sent>>
  /\ UNCHANGED <<cvars, completion, handler>>

\* the length checks of _perform_search
_perform_search(q, lead) ==
  IF TextLen(q) < MinQueryLen \/ TextLen(q) > MaxQueryLen
  THEN lead = 0 /\ Answer("app", "handle_message", message', q, "rejected")
  ELSE StartSearch("app", "handle_message", q, DefaultMaxApp, lead)

StartWords == {<<"/start">>, <<"start">>, <<"hello">>, <<"salut">>}
HelpWords == {<<"/help">>, <<"help">>, <<"aide">>}

\* message.startswith('/')
StartsWithSlash(m) == m # <<>> /\ Len(Head(m)) >= 1 /\ SubSeq(Head(m), 1, 1) = "/"

\* message.lower().startswith('/search '): the message is stripped, so a word
\* follows the space
StartsWithSearch(m) == Len(m) >= 2 /\ LowerWord(Head(m)) = "/search"

\* the messages a user sends: a command with a query, a plain query, a greeting,
\* a request for help
Messages ==
  {<<"/search">> \o q : q \in Queries} \cup Queries
    \cup {<<"Salut">>, <<"Help">>, <<"aide">>, <<"/help">>, <<"/HELP">>}

\* app.py handle_message: the tests in the order of the code
handle_message ==
  /\ pc = "idle"
  /\ \E m \in Messages, lead \in TimerLeads :
       /\ message' = m
       /\ IF LowerWords(m) \in StartWords
          THEN lead = 0 /\ Answer("app", "handle_message", m, m, "welcome")
          ELSE IF StartsWithSearch(m)
          THEN IF Tail(m) # <<>> THEN _perform_search(Tail(m), lead)
               ELSE lead = 0 /\ Answer("app", "handle_message", m, m, "specify")
          ELSE IF TextLen(m) >= 2 /\ ~StartsWithSlash(m) THEN _perform_search(m, lead)
          ELSE IF LowerWords(m) \in HelpWords
          THEN lead = 0 /\ Answer("app", "handle_message", m, m, "help")
          ELSE lead = 0 /\ Answer("app", "handle_message", m, m, "unrecognized")

\* app.py POST /search-direct
search_direct ==
  /\ pc = "idle"
  /\ message' = <<>>
  /\ \E q \in Queries :
       IF q = <<>> THEN Reject("app", "search_direct", q)
       ELSE StartSearch("app", "search_direct", q, DefaultMaxApp, 0)

\* bot.py /search
search_command ==
  /\ pc = "idle"
  /\ message' = <<>>
  /\ \E q \in Queries :
       IF q = <<>> THEN Reject("bot", "search_command", q)
       ELSE StartSearch("bot", "search_command", q, DefaultMaxBot, 0)

\* bot.py plain text
handle_text ==
  /\ pc = "idle"
  /\ message' = <<>>
  /\ \E q \in Queries :
       IF TextLen(q) > 1 THEN StartSearch("bot", "handle_text", q, DefaultMaxBot, 0)
       ELSE Reject("bot", "handle_text", q)

\* search_groups(query, max_results) called as its signature allows
search_groups ==
  /\ pc = "idle"
  /\ message' = <<>>
  /\ \E v \in Variants, q \in ValidQueries, mr \in MaxResultsArgs :
       StartSearch(v, "search_groups", q, mr, 0)

HasDeadline == entry = "handle_message"

\* the request of source s ends
FetchEnds(s) ==
  /\ pc = "gather"
  /\ task[s] = "pending"
  /\ \E o \in Outcomes(s) :
       /\ HasDeadline => timerLead + Dur(variant, o) <= AggregateDeadline
       /\ outcome' = [outcome EXCEPT ![s] = o]
       /\ results' = [results EXCEPT ![s] = _search_single_source(variant, s, o)]
  /\ task' = [task EXCEPT ![s] = "done"]
  /\ UNCHANGED <<pc, variant, entry, message, query, max_results, timerLead, all_groups,
                 unique_groups, rank_input, ranked, final_groups, recordsFetched,
                 fallbackRuns, fetches, elapsed, reply, bterm, bsource, additional_groups,
                 sent>>
  /\ UNCHANGED <<cvars, handler>>

\* the request of source s ends; the order of the ends is not recorded
FetchComplete(s) == FetchEnds(s) /\ UNCHANGED completion

\* the request of source s ends and the order of the ends is recorded
TaskEnds(s) == FetchEnds(s) /\ completion' = Append(completion, s)

\* a deadline that answers the caller and leaves the fetches in flight
DeadlineWithoutCancel ==
  /\ pc = "gather"
  /\ entry = "handle_message"
  /\ \E s \in Sources : task[s] = "pending"
  /\ timerLead + SessionTotalApp > AggregateDeadline
  /\ elapsed' = AggregateDeadline
  /\ reply' = "timeout"
  /\ pc' = "done"
  /\ UNCHANGED <<variant, entry, message, query, max_results, timerLead, task, outcome, results,
                 all_groups, unique_groups, rank_input, ranked, final_groups,
                 recordsFetched, fallbackRuns, fetches, bterm, bsource, additional_groups,
                 sent>>
  /\ UNCHANGED <<cvars, completion, handler>>

\* asyncio.wait_for(..., timeout=15.0) of _perform_search expires: the search
\* is cancelled and the caller answers that the search took too long
Deadline ==
  /\ pc = "gather"
  /\ HasDeadline
  /\ \E s \in Sources : task[s] = "pending"
  /\ timerLead + SessionTotalApp > AggregateDeadline
  /\ task' = [s \in Sources |-> IF task[s] = "pending" THEN "cancelled" ELSE task[s]]
  /\ elapsed' = AggregateDeadline
  /\ reply' = "timeout"
  /\ pc' = "done"
  /\ UNCHANGED <<variant, entry, message, query, max_results, timerLead, outcome, results,
                 all_groups, unique_groups, rank_input, ranked, final_groups,
                 recordsFetched, fallbackRuns, fetches, bterm, bsource, additional_groups,
                 sent>>
  /\ UNCHANGED <<cvars, completion, handler>>

(***************************************************************************)
(* Rendering.  A message is modelled by what it shows: the count of its    *)
(* header, the numbered records in order, and in app.py its footer and its *)
(* length in characters.                                                   *)
(***************************************************************************)
\* len(str(n)) for n >= 0
RECURSIVE DecLen(_)
DecLen(n) == IF n < 10 THEN 1 ELSE 1 + DecLen(n \div 10)

\* len() of the members line of an entry: "👥 ", the number, " membres\n";
\* the number is printed as n, as n//1000 with ".0K", or as n//1000000 with ".0M"
MembersLineLen(m) ==
  IF m <= 0 THEN 0
  ELSE IF m >= 1000000 THEN 2 + (DecLen(m \div 1000000) + 3) + 9
  ELSE IF m >= 1000 THEN 2 + (DecLen(m \div 1000) + 3) + 9
  ELSE 2 + DecLen(m) + 9

\* len(entry): "🔹 *i. title*\n", "🔗 link\n", "📝 description\n" when there
\* is a description other than the default one, the members line, and "\n"
EntryLen(i, g) ==
  (7 + DecLen(i) + TextLen(g.title))
  + (3 + Len(g.link))
  + (IF g.description # <<>> /\ g.description # <<"Canal/Groupe", "Telegram">>
     THEN 3 + TextLen(g.description) ELSE 0)
  + MembersLineLen(g.members)
  + 1

\* len(header): "🎯 *Résultats pour 'query'*\n📊 n groupes trouvés\n\n"
HeaderLen(q, n) == 42 + TextLen(q) + DecLen(n)

\* len(footer): the advice line and "⏰ Recherche effectuée à HH:MM"
FooterLen == 93

Numbered(groups, from, to) ==
  [k \in 1 .. (to - from + 1) |-> [index |-> from + k - 1, group |-> groups[from + k - 1]]]

RECURSIVE TotalLen(_, _)
TotalLen(groups, i) ==
  IF i > Len(groups) THEN 0 ELSE EntryLen(i, groups[i]) + TotalLen(groups, i + 1)

\* a rendering that appends every entry and the footer, whatever the length
FormatWithoutLimit(q, groups) ==
  [count |-> Len(groups),
   shown |-> Numbered(groups, 1, Len(groups)),
   footer |-> TRUE,
   length |-> HeaderLen(q, Len(groups)) + TotalLen(groups, 1) + FooterLen]

\* the loop over results: entries are appended until the first one that would
\* take the message over the limit; then the loop breaks
RECURSIVE FormatLoop(_, _, _)
FormatLoop(groups, i, current_length) ==
  IF i > Len(groups) \/ current_length + EntryLen(i, groups[i]) > WhatsAppLimit
  THEN [shown |-> i - 1, length |-> current_length]
  ELSE FormatLoop(groups, i + 1, current_length + EntryLen(i, groups[i]))

\* app.py _format_search_results
_format_search_results(q, groups) ==
  LET body == FormatLoop(groups, 1, HeaderLen(q, Len(groups)))
      footer == body.length + FooterLen <= WhatsAppLimit
  IN [count |-> Len(groups),
      shown |-> Numbered(groups, 1, body.shown),
      footer |-> footer,
      length |-> body.length + (IF footer THEN FooterLen ELSE 0)]

\* bot.py send_results: one message per chunk of 10 records, the header in
\* the first one only (count -1: no header)
send_results(q, groups) ==
  [i \in 1 .. ((Len(groups) + ChunkSize - 1) \div ChunkSize) |->
     [count |-> IF i = 1 THEN Len(groups) ELSE -1,
      shown |-> Numbered(groups, (i - 1) * ChunkSize + 1, Min(i * ChunkSize, Len(groups)))]]

\* what the handler sends for the list search_groups returned: app.py
\* _perform_search one formatted message, bot.py perform_search the messages
\* of send_results for at most 40 records; nothing is rendered for an empty
\* list, for /search-direct and for a direct call of search_groups
Rendered(v, e, q, groups) ==
  IF groups = <<>> THEN <<>>
  ELSE IF e = "handle_message" THEN << _format_search_results(q, groups) >>
  ELSE IF e \in {"search_command", "handle_text"}
  THEN send_results(q, IF Len(groups) > DeliveryMax THEN Slice(groups, DeliveryMax) ELSE groups)
  ELSE <<>>

ReplyFor(groups) == IF groups = <<>> THEN "no_results" ELSE "results"

\* seconds the fan-out takes: the fetches run concurrently
FanOutTime == LET S == {Dur(variant, outcome[s]) : s \in Sources}
              IN timerLead + (CHOOSE d \in S : \A x \in S : d >= x)

\* the results in the order the tasks ended
ResultsAsCompleted == [i \in 1 .. Len(completion) |-> results[completion[i]]]

\* results = await asyncio.gather(*tasks, return_exceptions=True): one result
\* per task, in the order of the tasks
ResultList == [s \in Sources |-> results[s]]

\* app.py search_groups from the return of gather to its own return
AppGathered ==
  /\ variant = "app"
  /\ \E merged \in {Merge(ResultList)}, q \in {LowerWords(query)} :
     \E unique \in {_deduplicate_groups(merged)} :
        /\ all_groups' = merged
        /\ unique_groups' = unique
        /\ recordsFetched' = Len(merged)
        /\ IF Len(unique) < MinResultsApp
           THEN /\ fallbackRuns' = fallbackRuns + 1
                /\ \E rnd \in [1 .. Len(matching_groups(q)) -> PopularMembers] :
                     rank_input' = unique \o _get_popular_groups(q, rnd)
           ELSE /\ fallbackRuns' = fallbackRuns
                /\ rank_input' = unique
        /\ ranked' = _filter_and_rank(rank_input', q)
        /\ final_groups' = Slice(ranked', max_results)
  /\ reply' = ReplyFor(final_groups')
  /\ sent' = Rendered(variant, entry, query, final_groups')
  /\ pc' = "done"
  /\ UNCHANGED <<fetches, bterm, bsource, additional_groups>>

\* the index of the first broadened term behind t that differs from the query
NextTerm(q, t) ==
  LET later == {i \in (t + 1) .. Len(broader_terms(q)) : broader_terms(q)[i] # q}
  IN IF later = {} THEN 0 ELSE CHOOSE i \in later : \A j \in later : i <= j

\* bot.py search_groups from the return of gather to the first broadened fetch,
\* or to its own return
BotGathered ==
  /\ variant = "bot"
  /\ \E merged \in {Merge(ResultList)} :
     \E unique \in {_remove_duplicates(merged)} :
     \E final \in {Slice(BotSort(unique), max_results)} :
        /\ all_groups' = merged
        /\ unique_groups' = unique
        /\ recordsFetched' = Len(merged)
        /\ rank_input' = unique
        /\ ranked' = BotSort(unique)
        /\ final_groups' = final
        /\ IF Len(final) < MinResultsBot
           THEN /\ fallbackRuns' = fallbackRuns + 1
                /\ bterm' = NextTerm(query, 0)
                /\ bsource' = 1
                /\ fetches' = fetches + 1
                /\ pc' = "broaden"
                /\ reply' = reply
                /\ sent' = sent
           ELSE /\ reply' = ReplyFor(final)
                /\ sent' = Rendered(variant, entry, query, final)
                /\ pc' = "done"
                /\ UNCHANGED <<fallbackRuns, bterm, bsource, fetches>>
  /\ UNCHANGED additional_groups

\* gather returns when every task is done
Gathered ==
  /\ pc = "gather"
  /\ \A s \in Sources : task[s] = "done"
  /\ elapsed' = FanOutTime
  /\ AppGathered \/ BotGathered
  /\ UNCHANGED <<variant, entry, message, query, max_results, timerLead, task, outcome, results>>
  /\ UNCHANGED <<cvars, completion, handler>>

\* a loop that never has enough
NeverEnough(groups) == FALSE

\* if len(additional_groups) >= 10: break, in the inner and in the outer loop
Enough(groups) == Len(groups) >= BroadEnough

\* _broader_search: the awaited fetch of (bterm, bsource) ends; the loops go
\* on to the next fetch or end, and then search_groups returns
BroadFetch ==
  /\ pc = "broaden"
  /\ \E o \in BroadOutcomes(bsource) :
       \E more \in {additional_groups \o _search_single_source("bot", bsource, o).groups} :
       \E enough \in {Enough(more)}, nextT \in {NextTerm(query, bterm)} :
          /\ additional_groups' = more
          /\ recordsFetched' = recordsFetched + Len(more) - Len(additional_groups)
          /\ elapsed' = elapsed + Dur("bot", o)
          /\ IF ~enough /\ bsource < BroadSources
             THEN /\ bsource' = bsource + 1
                  /\ fetches' = fetches + 1
                  /\ UNCHANGED <<bterm, pc, final_groups, reply, sent>>
             ELSE IF ~enough /\ nextT # 0
             THEN /\ bterm' = nextT
                  /\ bsource' = 1
                  /\ fetches' = fetches + 1
                  /\ UNCHANGED <<pc, final_groups, reply, sent>>
             ELSE /\ final_groups' =
                       Slice(_remove_duplicates(final_groups \o more), max_results)
                  /\ reply' = ReplyFor(final_groups')
                  /\ sent' = Rendered(variant, entry, query, final_groups')
                  /\ pc' = "done"
                  /\ UNCHANGED <<bterm, bsource, fetches>>
  \* the locals of the fan-out are not read again
  /\ task' = [s \in Sources |-> "none"]
  /\ outcome' = [s \in Sources |-> NoOutcome]
  /\ results' = [s \in Sources |-> NoResult]
  /\ all_groups' = <<>>
  /\ unique_groups' = <<>>
  /\ rank_input' = <<>>
  /\ ranked' = <<>>
  /\ UNCHANGED <<variant, entry, message, query, max_results, timerLead, fallbackRuns>>
  /\ UNCHANGED <<cvars, completion, handler>>

Next ==
  \/ handle_message
  \/ search_direct
  \/ search_command
  \/ handle_text
  \/ search_groups
  \/ \E s \in Sources : FetchComplete(s)
  \/ Deadline
  \/ Gathered
  \/ BroadFetch

Spec == Init /\ [][Next]_vars


(***************************************************************************)
(* The fan-out of one direct call of search_groups, with the order in      *)
(* which the requests end recorded.                                        *)
(***************************************************************************)
DefaultMax(v) == IF v = "app" THEN DefaultMaxApp ELSE DefaultMaxBot

GatherStart ==
  /\ pc = "idle"
  /\ message' = <<>>
  /\ \E v \in Variants, q \in ValidQueries :
       StartSearch(v, "search_groups", q, DefaultMax(v), 0)

GatherNext ==
  \/ GatherStart
  \/ \E s \in Sources : TaskEnds(s)
  \/ Gathered

GatherSpec == Init /\ [][GatherNext]_vars

(***************************************************************************)
(* One direct call of search_groups from its start to its return.  Every   *)
(* request ends (it returns, or the timeout of its session expires), and   *)
(* the event loop resumes a coroutine whose await has ended.               *)
(***************************************************************************)
CallNext ==
  \/ GatherStart
  \/ \E s \in Sources : FetchComplete(s)
  \/ Gathered
  \/ BroadFetch

FairSpec ==
  /\ Init /\ [][CallNext]_vars
  /\ \A s \in Sources : WF_vars(FetchComplete(s))
  /\ WF_vars(Gathered)
  /\ WF_vars(BroadFetch)

(***************************************************************************)
(* bot.py perform_search, one step per await.  Every call of the Telegram  *)
(* API may raise.                                                          *)
(***************************************************************************)
\* the numbers of records search_groups returns to the handler
HandlerResults == {0, 2, ChunkSize + 5, DeliveryMax + 5}

\* len(chunks) of send_results
NumChunks(n) == (n + ChunkSize - 1) \div ChunkSize

\* /search or a plain text: the 'searching' message is sent and search_groups
\* is awaited
HandlerBegin ==
  /\ handler.pc = "idle"
  /\ \E e \in {"search_command", "handle_text"}, q \in ValidQueries :
       handler' = [IdleHandler EXCEPT !.pc = "searching", !.entry = e, !.query = q]
  /\ UNCHANGED <<svars, cvars>>

\* search_groups returns n records, or raises
SearchEnds ==
  /\ handler.pc = "searching"
  /\ \E raised \in BOOLEAN, n \in HandlerResults :
       /\ raised => n = 0
       /\ handler' = [handler EXCEPT !.pc = IF raised THEN "except" ELSE "delete",
                                     !.groups = n]
  /\ UNCHANGED <<svars, cvars>>

\* await searching_msg.delete() of the try block, then the tests on groups
DeleteSearching ==
  /\ handler.pc = "delete"
  /\ \E ok \in BOOLEAN :
       handler' = [handler EXCEPT
                     !.deletes = @ + 1,
                     !.deleted = ok,
                     !.groups = IF @ > DeliveryMax THEN DeliveryMax ELSE @,
                     !.pc = IF ~ok THEN "except"
                            ELSE IF handler.groups = 0 THEN "reply_none" ELSE "send"]
  /\ UNCHANGED <<svars, cvars>>

\* the reply for an empty result, and the return
ReplyNoResults ==
  /\ handler.pc = "reply_none"
  /\ \E ok \in BOOLEAN :
       handler' = IF ok THEN [handler EXCEPT !.pc = "done", !.reply = "no_results"]
                  ELSE [handler EXCEPT !.pc = "except"]
  /\ UNCHANGED <<svars, cvars>>

\* send_results: the reply_text of one chunk
SendChunk ==
  /\ handler.pc = "send"
  /\ \E ok \in BOOLEAN :
       handler' = IF ~ok THEN [handler EXCEPT !.pc = "except"]
                  ELSE [handler EXCEPT
                          !.chunks = @ + 1,
                          !.reply = "results",
                          !.pc = IF handler.chunks + 1 = NumChunks(handler.groups)
                                 THEN "done" ELSE "send"]
  /\ UNCHANGED <<svars, cvars>>

\* except Exception: searching_msg.delete() and the error reply; the delete of
\* a message that is deleted already raises, and the handler ends there
ExceptClause ==
  /\ handler.pc = "except"
  /\ handler' = [handler EXCEPT
                   !.deletes = @ + 1,
                   !.deleted = TRUE,
                   !.reply = IF handler.deleted THEN @ ELSE "error",
                   !.pc = "done"]
  /\ UNCHANGED <<svars, cvars>>

HandlerNext ==
  \/ HandlerBegin
  \/ SearchEnds
  \/ DeleteSearching
  \/ ReplyNoResults
  \/ SendChunk
  \/ ExceptClause

HandlerSpec == Init /\ [][HandlerNext]_vars

(***************************************************************************)
(* The process: one searcher, its HTTP session, the searches that run      *)
(* concurrently on the event loop, the cache of app.py, and the shutdown.  *)
(* A search is cut at its awaits: it begins, starts its fetches, and ends. *)
(***************************************************************************)
\* a get_session that builds a session on every call
GetSessionAlwaysNew(sess, all) == [session |-> Len(all) + 1, sessions |-> Append(all, "open")]

\* app.py get_session: no await between the test and the assignment
get_session(sess, all) ==
  IF sess = 0 \/ all[sess] = "closed"
  THEN [session |-> Len(all) + 1, sessions |-> Append(all, "open")]
  ELSE [session |-> sess, sessions |-> all]

\* bot.py init_session: builds a session and assigns it
init_session(sess, all) == [session |-> Len(all) + 1, sessions |-> Append(all, "open")]

\* bot.py search_groups: if not self.session: await self.init_session()
EnsureSession(sess, all) ==
  IF sess = 0 THEN init_session(sess, all) ELSE [session |-> sess, sessions |-> all]

\* app.py TelegramGroupSearcher.close
close(sess, all) ==
  IF sess # 0 /\ all[sess] = "open" THEN [all EXCEPT ![sess] = "closed"] ELSE all

\* bot.py close_session: the session is closed and stays assigned
close_session(sess, all) == IF sess # 0 THEN [all EXCEPT ![sess] = "closed"] ELSE all

\* a cache with one slot shared by every requester
CachePutShared(cache, phone_number, e) == [p \in Phones |-> e]

\* dict assignment: the key is added or its value replaced
DictPut(d, k, e) == [x \in DOMAIN d \cup {k} |-> IF x = k THEN e ELSE d[x]]

\* self.last_searches[phone_number] = {'query': ..., 'results': ..., 'timestamp': ...}
CachePut(cache, phone_number, e) == DictPut(cache, phone_number, e)

\* what search_groups gives a concurrent search
CallResults == {<<>>, ParsePage("app", 1, PageA), ParsePage("app", 2, PageB)}

\* app.py main: setup_bot builds the WhatsAppBot and its searcher
setup_bot ==
  /\ server.state = "new"
  /\ server' = [variant |-> "app", state |-> "up"]
  /\ UNCHANGED <<session, sessions, call, last_searches>>
  /\ UNCHANGED <<svars, handler>>

\* bot.py: main builds the TelegramBot, and run_polling / run_webhook call
\* init_session before the handlers run (eager); or a TelegramGroupSearcher is
\* built and searched without them
start_bot(eager) ==
  /\ server.state = "new"
  /\ server' = [variant |-> "bot", state |-> "up"]
  /\ session' = IF eager THEN init_session(session, sessions).session ELSE session
  /\ sessions' = IF eager THEN init_session(session, sessions).sessions ELSE sessions
  /\ UNCHANGED <<call, last_searches>>
  /\ UNCHANGED <<svars, handler>>

\* _perform_search (app.py) / perform_search (bot.py) up to the gather of
\* search_groups
CallBegin(c) ==
  /\ server.state = "up"
  /\ call[c].pc = "idle"
  /\ \A d \in Calls : d < c => call[d].pc # "idle"
  /\ \E p \in Phones, q \in ValidQueries :
       call' = [call EXCEPT ![c] = [IdleCall EXCEPT !.pc = "searching", !.phone = p,
                                                    !.query = q]]
  /\ session' = IF server.variant = "bot" THEN EnsureSession(session, sessions).session
                ELSE session
  /\ sessions' = IF server.variant = "bot" THEN EnsureSession(session, sessions).sessions
                 ELSE sessions
  /\ UNCHANGED <<server, last_searches>>
  /\ UNCHANGED <<svars, handler>>

\* one _search_single_source of the search runs up to its session.get
CallFetch(c) ==
  /\ server.state = "up"
  /\ call[c].pc = "searching"
  /\ call[c].started < Len(FanOutSources(server.variant))
  /\ session' = IF server.variant = "app" THEN get_session(session, sessions).session
                ELSE session
  /\ sessions' = IF server.variant = "app" THEN get_session(session, sessions).sessions
                 ELSE sessions
  \* a request on a closed session raises, and the fetch gives an empty list
  /\ call' = [call EXCEPT ![c].started = @ + 1, ![c].used = @ \cup {session'},
                          ![c].failed = IF sessions'[session'] = "closed" THEN @ + 1 ELSE @]
  /\ UNCHANGED <<server, last_searches>>
  /\ UNCHANGED <<svars, handler>>

\* the search returns to the handler; app.py caches a non-empty result
CallEnd(c) ==
  /\ server.state = "up"
  /\ call[c].pc = "searching"
  /\ call[c].started = Len(FanOutSources(server.variant))
  /\ \E timeout \in BOOLEAN, groups \in CallResults :
       /\ timeout => server.variant = "app" /\ groups = <<>>
       /\ call[c].failed = call[c].started => groups = <<>>
       /\ call' = [call EXCEPT ![c].pc = "done", ![c].groups = groups]
       /\ last_searches' =
            IF server.variant = "app" /\ groups # <<>>
            THEN CachePut(last_searches, call[c].phone,
                          [query |-> call[c].query, results |-> groups])
            ELSE last_searches
  /\ UNCHANGED <<server, session, sessions>>
  /\ UNCHANGED <<svars, handler>>

\* close (app.py) or close_session (bot.py) is called on the searcher while
\* the process runs, between two searches
CloseSearcher ==
  /\ server.state = "up"
  /\ \A c \in Calls : call[c].pc # "searching"
  /\ session # 0
  /\ sessions[session] = "open"
  /\ Cardinality({i \in 1 .. Len(sessions) : sessions[i] = "closed"}) < MaxCloses
  /\ sessions' = IF server.variant = "app" THEN close(session, sessions)
                 ELSE close_session(session, sessions)
  /\ UNCHANGED <<server, session, call, last_searches>>
  /\ UNCHANGED <<svars, handler>>

\* the process ends: app.py main runs cleanup in its finally clause; bot.py
\* main returns when run_polling / run_webhook return
Shutdown ==
  /\ server.state = "up"
  /\ server' = [server EXCEPT !.state = "down"]
  /\ sessions' = IF server.variant = "app" THEN close(session, sessions) ELSE sessions
  /\ UNCHANGED <<session, call, last_searches>>
  /\ UNCHANGED <<svars, handler>>

ProcessNext ==
  \/ setup_bot
  \/ \E eager \in BOOLEAN : start_bot(eager)
  \/ \E c \in Calls : CallBegin(c)
  \/ \E c \in Calls : CallFetch(c)
  \/ \E c \in Calls : CallEnd(c)
  \/ CloseSearcher
  \/ Shutdown

ProcessSpec == Init /\ [][ProcessNext]_vars

(***************************************************************************)
(* Properties.                                                             *)
(***************************************************************************)
\* gather has returned and the locals of the fan-out are still in scope
FanOutDone == pc \in {"broaden", "done"} /\ \A s \in Sources : task[s] = "done"

\* search_groups has returned to its caller
Returned == pc = "done" /\ reply \in {"results", "no_results"}

Links(groups) == [i \in 1 .. Len(groups) |-> groups[i].link]
Range(seq) == {seq[i] : i \in 1 .. Len(seq)}

\* the records of the sources that answered with status 200, in source order
SuccessRecords ==
  Concat([s \in Sources |->
            IF outcome[s].kind = "ok" THEN ParsePage(variant, s, outcome[s].page) ELSE <<>>])

\* C1: in both variants, whatever way each fetch ends (200, another status,
\* timeout, transport error), _search_single_source raises nothing and gives
\* an empty list for a source that failed, and the merged list of
\* search_groups is exactly the records of the sources that answered.
C1_FailuresIsolated ==
  /\ \A s \in Sources :
       task[s] = "done" =>
         /\ ~results[s].raised
         /\ outcome[s].kind \in Failures => results[s].groups = <<>>
  /\ FanOutDone => all_groups = SuccessRecords

C1_Witness ==
  /\ FanOutDone
  /\ \E s1, s2, s3 \in Sources :
       /\ outcome[s1].kind = "timeout"
       /\ outcome[s2].kind \in {"status", "error"}
       /\ outcome[s3].kind = "ok"
       /\ results[s3].groups # <<>>
  /\ all_groups # <<>>

\* C2: the list search_groups returns never holds two records whose
\* normalized link keys are equal, with or without the fallback step.
C2_NoDuplicateKeys ==
  Returned =>
    \A i, j \in 1 .. Len(final_groups) :
      i # j => NormKey(final_groups[i].link) # NormKey(final_groups[j].link)

\* C3: when no fetch of the call returned a record, search_groups returns an
\* empty list and the caller reports "no results".
C3_AllFailYieldsEmpty ==
  (Returned /\ recordsFetched = 0) => (final_groups = <<>> /\ reply = "no_results")

\* C4: a query shorter than 2 or longer than 50 characters starts no fetch,
\* whatever the entry point.
C4_InvalidQueryNeverFetched ==
  (TextLen(query) < MinQueryLen \/ TextLen(query) > MaxQueryLen) => fetches = 0

\* C5: a search returns to its caller within the aggregate deadline of 15 s,
\* also when the broadening step runs.
C5_WithinDeadline ==
  (pc = "done" /\ reply \notin NoSearchReplies) => elapsed <= AggregateDeadline

Ceiling(v) == IF v = "app" THEN DefaultMaxApp ELSE DefaultMaxBot

MinResults(v) == IF v = "app" THEN MinResultsApp ELSE MinResultsBot

\* C7: the fallback or broadening step runs if and only if the number of
\* deduplicated records found before it is below the threshold (5 in app.py,
\* 3 in bot.py), for every max_results, and at most once per call.
C7_FallbackIffBelowThreshold ==
  /\ fallbackRuns <= 1
  /\ FanOutDone => (fallbackRuns = 1 <=> Len(unique_groups) < MinResults(variant))

\* what the ranking of app.py gives for the records of the finished sources
FinishedRanked ==
  _filter_and_rank(
    _deduplicate_groups(
      Merge([s \in Sources |-> IF task[s] = "done" THEN results[s] ELSE NoResult])),
    LowerWords(query))

SortKey(g) == IF variant = "app" THEN calculate_relevance(g, LowerWords(query)) ELSE g.members

Pos(x, seq) == CHOOSE i \in 1 .. Len(seq) : seq[i] = x /\ \A j \in 1 .. (i - 1) : seq[j] # x

\* C9: in the ranking step of both variants, two records of equal sort key
\* (relevance score in app.py, member count in bot.py) keep the relative
\* order they have in the list handed to the step.
C9_RankingIsStable ==
  FanOutDone =>
    /\ Range(ranked) \subseteq Range(rank_input)
    /\ \A i, j \in 1 .. Len(ranked) :
         (i < j /\ SortKey(ranked[i]) = SortKey(ranked[j]))
           => Pos(ranked[i], rank_input) < Pos(ranked[j], rank_input)

C9_Witness ==
  /\ FanOutDone
  /\ \E i, j \in 1 .. Len(ranked) :
       /\ i < j
       /\ SortKey(ranked[i]) = SortKey(ranked[j])
       /\ \E k \in 1 .. Len(ranked) :
            /\ SortKey(ranked[k]) > SortKey(ranked[i])
            /\ Pos(ranked[k], rank_input) > Pos(ranked[j], rank_input)

\* C10: the deduplication step of each variant keeps exactly one of the
\* records whose links differ only in letter case or a trailing slash.
C10_CaseAndSlashCollapse ==
  FanOutDone =>
    \A i \in 1 .. Len(all_groups) :
      Cardinality({j \in 1 .. Len(unique_groups) :
                     NormKey(unique_groups[j].link) = NormKey(all_groups[i].link)}) = 1

\* the number of words of the query that are words of the text, both in lower case
Matches(text) ==
  Cardinality({w \in WordSet(LowerWords(query)) :
                 \E i \in 1 .. Len(text) : LowerWord(text[i]) = w})

SourceBonus(g) == IF g.source = "tgstat.com" \/ g.source = "tlgrm.eu" THEN 1 ELSE 0

\* the member bonus read as one of three tiers
TierBonus(g) == IF g.members > 10000 THEN 2 ELSE IF g.members > 1000 THEN 1 ELSE 0

\* the member bonus as two bonuses that add up
CumulativeBonus(g) == IF g.members > 10000 THEN 3 ELSE IF g.members > 1000 THEN 1 ELSE 0

\* the state in which app.py has ranked
AppRanked == FanOutDone /\ variant = "app"

\* C11 as stated: the score of a record is 3 x title matches + 1 x
\* description matches + source bonus + a member bonus of 1 above 1,000
\* members and of 2 above 10,000 members.
C11_ScoreTierBonus ==
  AppRanked =>
    \A i \in 1 .. Len(rank_input) :
      calculate_relevance(rank_input[i], LowerWords(query))
        = 3 * Matches(rank_input[i].title) + Matches(rank_input[i].description)
          + TierBonus(rank_input[i]) + SourceBonus(rank_input[i])

\* C11 amended: the score of a record is 3 x title matches + 1 x description
\* matches + source bonus + member bonus, where the two member bonuses add up:
\* 1 above 1,000 members, 3 (1 + 2) above 10,000 members; and the ranking
\* keeps exactly the records whose score is above 0.
C11_ScoreCumulativeBonus ==
  AppRanked =>
    /\ \A i \in 1 .. Len(rank_input) :
         calculate_relevance(rank_input[i], LowerWords(query))
           = 3 * Matches(rank_input[i].title) + Matches(rank_input[i].description)
             + CumulativeBonus(rank_input[i]) + SourceBonus(rank_input[i])
    /\ Range(ranked) =
         {g \in Range(rank_input) :
            3 * Matches(g.title) + Matches(g.description)
              + CumulativeBonus(g) + SourceBonus(g) > 0}

C11_Witness ==
  /\ AppRanked
  /\ \E g \in Range(ranked) :
       /\ g.members > 10000
       /\ Matches(g.title) > 0
       /\ Matches(g.description) > 0
       /\ SourceBonus(g) = 1
  /\ \E g \in Range(ranked) : g.members > 1000 /\ g.members <= 10000
  /\ \E g \in Range(ranked) : g.members <= 1000 /\ SourceBonus(g) = 0

\* C12: a list app.py search_groups returns holds only records of score
\* above 0, in non-increasing score order.
C12_PositiveAndDescending ==
  (Returned /\ variant = "app") =>
    /\ \A i \in 1 .. Len(final_groups) :
         calculate_relevance(final_groups[i], LowerWords(query)) > 0
    /\ \A i, j \in 1 .. Len(final_groups) :
         i < j => calculate_relevance(final_groups[i], LowerWords(query))
                    >= calculate_relevance(final_groups[j], LowerWords(query))

C12_Witness ==
  /\ Returned
  /\ variant = "app"
  /\ \E g \in Range(rank_input) : calculate_relevance(g, LowerWords(query)) = 0
  /\ \E i, j \in 1 .. Len(final_groups) :
       /\ i < j
       /\ calculate_relevance(final_groups[i], LowerWords(query))
            > calculate_relevance(final_groups[j], LowerWords(query))
       /\ Pos(final_groups[i], rank_input) > Pos(final_groups[j], rank_input)

\* C13: a list bot.py search_groups returns is in non-increasing member-count
\* order, also when the broadening step added records.
C13_DescendingMembers ==
  (Returned /\ variant = "bot") =>
    \A i, j \in 1 .. Len(final_groups) :
      i < j => final_groups[i].members >= final_groups[j].members

\* a search has started its fan-out
Started == pc \in {"gather", "broaden", "done"} /\ reply \notin NoSearchReplies

\* C14 as stated: a search_groups call starts exactly one fetch for every
\* source configured in search_sources, all of them before any is awaited.
C14_OneFetchPerConfigured ==
  Started =>
    /\ fetches = Len(search_sources(variant))
    /\ pc = "gather" => \A s \in Sources : task[s] # "none"

\* C14 amended: the fan-out of a search_groups call starts exactly one fetch
\* for each of the first three entries of search_sources (three of the four
\* configured in app.py, all three in bot.py), all of them before any is
\* awaited; app.py starts no other fetch, and the broadening step of bot.py
\* starts further fetches after the fan-out.
C14_FanOutFirstThree ==
  Started =>
    /\ pc = "gather" =>
         /\ fetches = Min(Len(search_sources(variant)), NumSources)
         /\ \A s \in Sources : task[s] \in {"pending", "done"}
    /\ variant = "app" => fetches = NumSources /\ fetches < Len(search_sources("app"))
    /\ variant = "bot" => (fetches > Len(search_sources("bot")) <=> fallbackRuns = 1)

C14_Witness ==
  /\ pc = "gather"
  /\ variant = "app"
  /\ \E s, t \in Sources : task[s] = "done" /\ task[t] = "pending"
  /\ fetches = NumSources

\* the searches of requester p that have returned
DoneBy(p) == {c \in Calls : call[c].pc = "done" /\ call[c].phone = p}

\* the entries last_searches holds for p: none or one
Cached(p) == {last_searches[x] : x \in DOMAIN last_searches \cap {p}}

\* C15: in every interleaving of _perform_search calls, the last_searches
\* entry of a requester is created, changed or removed only by a call of
\* that requester as it returns, and it always holds the query and the
\* results of one of the requester's own searches.
C15_CacheIsolation ==
  /\ [](\A p \in DOMAIN last_searches :
          \E c \in DoneBy(p) : /\ call[c].query = last_searches[p].query
                               /\ call[c].groups = last_searches[p].results)
  /\ [][\A p \in Phones :
          Cached(p)' # Cached(p) =>
            \E c \in Calls : /\ call[c].phone = p
                             /\ call[c].pc = "searching"
                             /\ call'[c].pc = "done"]_vars

C15_Witness ==
  /\ call[1].pc = "searching"
  /\ call[1].started > 0
  /\ call[2].pc = "done"
  /\ call[1].phone # call[2].phone
  /\ DOMAIN last_searches = {call[2].phone}

C17_ClosedOnShutdown ==
  server.state = "down" => \A i \in 1 .. Len(sessions) : sessions[i] = "closed"

\* the numbered records of the messages, in the order they are sent
RECURSIVE AllShown(_)
AllShown(msgs) == IF msgs = <<>> THEN <<>> ELSE Head(msgs).shown \o AllShown(Tail(msgs))

\* C18: the rendering step outputs every record of the result exactly once
\* and in the result's order, numbered from 1, so that the number of records
\* shown is the number of groups the header announces.
C18_EveryRecordShown ==
  sent # <<>> =>
    /\ AllShown(sent) = Numbered(final_groups, 1, Len(final_groups))
    /\ sent[1].count = Len(AllShown(sent))

\* C19: for a query of 2 to 50 characters and any result list, the message
\* of app.py _format_search_results is at most 4000 characters long, with or
\* without the footer, and its length is that of the header, the entries
\* shown and the footer if present.
C19_MessageWithinLimit ==
  (variant = "app" /\ sent # <<>>) =>
    /\ TextLen(query) >= MinQueryLen /\ TextLen(query) <= MaxQueryLen
    /\ sent[1].length <= WhatsAppLimit
    /\ sent[1].length =
         HeaderLen(query, sent[1].count)
         + TotalLen(final_groups, 1) - TotalLen(final_groups, Len(sent[1].shown) + 1)
         + (IF sent[1].footer THEN FooterLen ELSE 0)

C19_Witness ==
  /\ variant = "app"
  /\ sent # <<>>
  /\ Len(sent[1].shown) < Len(final_groups)
  /\ ~sent[1].footer
  /\ sent[1].length + FooterLen > WhatsAppLimit

C19_WitnessFooter ==
  /\ variant = "app"
  /\ sent # <<>>
  /\ Len(sent[1].shown) = Len(final_groups)
  /\ sent[1].footer

\* C20: whenever bot.py delivers results, it delivers between 3 and 40
\* groups.
C20_DeliversThreeToForty ==
  (variant = "bot" /\ sent # <<>>) =>
    Len(AllShown(sent)) >= MinResultsBot /\ Len(AllShown(sent)) <= DeliveryMax

(***************************************************************************)
(* The extractors.                                                         *)
(***************************************************************************)
\* source s answered with a page and its extractor has run
Parsed(s) == task[s] = "done" /\ outcome[s].kind = "ok" /\ bterm = 0

\* C23: every extractor returns at most 15 records, whatever the size of the
\* page it is given.
C23_AtMostFifteenPerPage ==
  \A s \in Sources : Parsed(s) => Len(results[s].groups) <= GenericCap

\* C24: every record an extractor produced and search_groups returns has a
\* non-empty link and a non-empty title; an element without title text gives
\* a record whose title is the last path segment of its link.
C24_LinkAndTitlePresent ==
  /\ \A s \in Sources : Parsed(s) =>
       \A i \in 1 .. Len(results[s].groups) :
         outcome[s].page[i].title \in {NoElem, <<>>} =>
           results[s].groups[i].title =
             SegmentText(LastSegment(results[s].groups[i].link))
  /\ Returned =>
       \A i \in 1 .. Len(final_groups) :
         final_groups[i].link # <<>> /\ TextLen(final_groups[i].title) > 0

\* C25: the member count of a record is read in the record's own page
\* element: it is the count written there, or 0, and it is 0 when the element
\* carries no count.
C25_OwnMemberCount ==
  \A s \in Sources : Parsed(s) =>
    \A i \in 1 .. Len(results[s].groups) :
      results[s].groups[i].members \in {0, outcome[s].page[i].members}

(***************************************************************************)
(* The help message.                                                       *)
(***************************************************************************)
\* C21: a message that is 'help', 'aide' or '/help', in any letter case and
\* with surrounding whitespace ignored, is answered with the help text and
\* starts no search: no fetch is issued for it.
C21_HelpStartsNoSearch ==
  (entry = "handle_message" /\ LowerWords(message) \in HelpWords) =>
    /\ fetches = 0
    /\ pc = "done" => reply = "help"

(***************************************************************************)
(* The end of the broadening.                                              *)
(***************************************************************************)
\* C22 as stated: while a broadened fetch is in flight, the records found so
\* far do not yet make the result reach the minimum of 3: no fetch is issued
\* once the threshold is met.
C22_StopsAtThreshold ==
  pc = "broaden" =>
    Len(_remove_duplicates(final_groups \o additional_groups)) < MinResultsBot

\* C22 amended: a broadened fetch is issued only while fewer than 10 records
\* have been collected by the broadening; with fewer than 10 collected the
\* broadening ends only behind the last term and the second source.
C22_StopsAtTenCollected ==
  /\ pc = "broaden" => Len(additional_groups) < BroadEnough
  /\ (pc = "done" /\ variant = "bot" /\ fallbackRuns = 1
        /\ Len(additional_groups) < BroadEnough) =>
       (NextTerm(query, bterm) = 0 /\ bsource = BroadSources)

\* the broadening ended early: 10 records were collected while terms remained
C22_Witness ==
  /\ pc = "done" /\ variant = "bot" /\ fallbackRuns = 1
  /\ Len(additional_groups) >= BroadEnough
  /\ NextTerm(query, bterm) # 0
  /\ fetches < NumSources + BroadSources * Len(broader_terms(query))

(***************************************************************************)
(* The order of the merged list.                                           *)
(***************************************************************************)
\* C26: for given responses of the sources, the merged list is the lists of
\* the sources concatenated in the order of search_sources, in whatever order
\* the requests ended.
C26_MergedInSourceOrder ==
  (FanOutDone /\ Range(completion) = Sources) =>
    /\ all_groups = results[1].groups \o results[2].groups \o results[3].groups
    /\ all_groups = SuccessRecords

\* the third source answered first and the first one last, each with records
C26_Witness ==
  /\ FanOutDone
  /\ completion = <<3, 2, 1>>
  /\ \A s \in Sources : outcome[s].kind = "ok" /\ results[s].groups # <<>>
  /\ all_groups = results[1].groups \o results[2].groups \o results[3].groups

(***************************************************************************)
(* The session after a close.                                              *)
(***************************************************************************)
\* C28: for any sequence of searches and closes on one searcher, no fetch is
\* issued on a closed session: a search that follows a close first obtains a
\* new open session.
C28_NoFetchOnClosedSession ==
  \A c \in Calls : call[c].failed = 0

(***************************************************************************)
(* The progress message of bot.py.                                         *)
(***************************************************************************)
\* C27: on every path of perform_search (results, no results, an exception of
\* the search, an exception while the answer is sent) the 'searching' message
\* is deleted exactly once: delete is never called a second time.
C27_DeletedExactlyOnce ==
  /\ handler.deletes <= 1
  /\ handler.pc = "done" => handler.deletes = 1

(***************************************************************************)
(* Termination.                                                            *)
(***************************************************************************)
\* C29: when every request ends, every call of search_groups returns, and it
\* has issued at most one request per configured source in the fan-out and,
\* in bot.py, at most 8 broadened requests, one after the other: at most 4
\* terms, each different from the query, on the first 2 sources.
C29_TerminatesWithBoundedFetches ==
  /\ [](fetches <= Len(search_sources(variant))
                     + (IF variant = "bot" THEN BroadTerms * BroadSources ELSE 0))
  /\ [](pc = "broaden" => /\ variant = "bot"
                          /\ bterm \in 1 .. BroadTerms
                          /\ bsource \in 1 .. BroadSources
                          /\ broader_terms(query)[bterm] # query)
  /\ (pc \in {"gather", "broaden"} ~> pc = "done")

\* a search of bot.py that returned behind its 3 + 8 requests
C29_Witness ==
  /\ pc = "done"
  /\ variant = "bot"
  /\ fallbackRuns = 1
  /\ fetches = NumSources + BroadTerms * BroadSources
====
